---- MODULE Spec2Model ----
(***************************************************************************)
(* MX Local DNS Manager: the logic layer (logic.py, class ProjectLogic)    *)
(* in front of the Meraki Dashboard SDK, and the page run of web.py that   *)
(* renders what the logic layer returns.                                   *)
(*                                                                         *)
(* Python is run single-threaded by the page run, so one call of a         *)
(* ProjectLogic method is one atomic step.  The remote platform is the     *)
(* environment: its answer to a call is drawn from the answers the SDK can *)
(* give (a JSON body, None for an empty body, or meraki.APIError).         *)
(*                                                                         *)
(* Python values: a dict is a function on strings, a list is a sequence,   *)
(* None is the record None below.  Ids are generated by the remote.        *)
(***************************************************************************)
EXTENDS Integers, Sequences, FiniteSets, TLC

VARIABLES
    API_CALL_COUNTER,  \* logic.py global counter
    orgCache,          \* st.cache_data entry of get_organizations (no key)
    netCache,          \* st.cache_data entries of get_networks, by organization_id
    rOrgs,             \* remote: the organizations the API key sees
    rNets,             \* remote: networks of each organization
    rProfiles,         \* remote: Local DNS profiles of each organization
    rRecords,          \* remote: Local DNS records of each organization
    rAssigns,          \* remote: profile assignments of each organization
    rNextId,           \* remote: the next id the platform generates
    last,              \* the most recent ProjectLogic call and what it gave back
    trace,             \* the events of the most recent step, in order
    display            \* what the most recent page run rendered

vars == <<API_CALL_COUNTER, orgCache, netCache, rOrgs, rNets, rProfiles,
          rRecords, rAssigns, rNextId, last, trace, display>>

cacheVars  == <<orgCache, netCache>>
remoteVars == <<rOrgs, rNets, rProfiles, rRecords, rAssigns, rNextId>>
storeVars  == <<rProfiles, rRecords, rAssigns, rNextId>>

----------------------------------------------------------------------------
(* Bounds of the model *)

MaxCalls == 3      \* cap on API_CALL_COUNTER
MaxIds == 2        \* cap on the ids the remote generates

----------------------------------------------------------------------------
(* Python values *)

None == [NoneType |-> TRUE]
EmptyDict == [k \in {} |-> ""]

\* dict.get(key, default)
Get(d, key, default) == IF key \in DOMAIN d THEN d[key] ELSE default

\* bool(x) of a dict, a list or None
Truthy(x) == x # None /\ DOMAIN x # {}

Min(a, b) == IF a < b THEN a ELSE b

RECURSIVE Without(_, _, _)
\* the sequence s without the items whose field f is v, order kept
Without(s, f, v) ==
    IF s = <<>> THEN <<>>
    ELSE IF Head(s)[f] = v THEN Without(Tail(s), f, v)
         ELSE <<Head(s)>> \o Without(Tail(s), f, v)

----------------------------------------------------------------------------
(* Configuration *)

CACHE_CONFIG == [short |-> 300, medium |-> 3600, long |-> 86400]

\* the amounts the clock advances by between steps (seconds): half a day
ClockSteps == {43200}

----------------------------------------------------------------------------
(* The remote platform *)

Orgs == {"o1", "o2"}
Names == {"Eng"}
Hostnames == {"db.local"}
Addresses == {"10.0.0.5"}
NetIds == {"n1", "n2"}
\* the n-th id the remote generates; ids are strings
GenId(n) == ToString(n)
Ids == {GenId(i) : i \in 1..MaxIds}

Org1 == [id |-> "o1", name |-> "Org One"]
Org2 == [id |-> "o2", name |-> "Org Two"]
\* the organization lists the remote can hold (an organization is added or removed)
OrgLists == {<<Org1>>, <<Org1, Org2>>}

Net1 == [id |-> "n1", name |-> "HQ"]
Net2 == [id |-> "n2", name |-> "Branch"]
Net3 == [id |-> "n3", name |-> "Lab"]
\* the network lists the remote can hold for an organization (a network is
\* added to or removed from the first); a network belongs to one organization
NetLists(o) == IF o = "o1" THEN {<<Net1>>, <<Net1, Net3>>} ELSE {<<Net2>>}

\* what the SDK gives back for one remote operation
Ok(v) == [ok |-> TRUE, val |-> v, msg |-> ""]
APIError(m) == [ok |-> FALSE, val |-> None, msg |-> m]

Unavailable == "503 Service Unavailable"
NotFound == "404 Not Found"
BadRequest == "400 Bad Request"

\* a list response: the envelope with the items; an empty collection may come
\* without the items field; any request can fail
Envelope(items) ==
    {Ok([items |-> items]), APIError(Unavailable)}
    \cup (IF items = <<>> THEN {Ok([meta |-> "empty"])} ELSE {})

getOrganizations == {Ok(rOrgs), APIError(Unavailable)}
getOrganizationNetworks(o) == {Ok(rNets[o]), APIError(Unavailable)}
getOrganizationApplianceDnsLocalProfiles(o) == Envelope(rProfiles[o])
getOrganizationApplianceDnsLocalRecords(o) == Envelope(rRecords[o])
getOrganizationApplianceDnsLocalProfilesAssignments(o) == Envelope(rAssigns[o])

HasId(s, f, v) == \E i \in 1..Len(s) : s[i][f] = v

----------------------------------------------------------------------------
(* Events of a step *)

Entered(method) == [e |-> "call", n |-> 0, op |-> method, req |-> <<>>]
Logged(n, endpoint) == [e |-> "log", n |-> n, op |-> endpoint, req |-> <<>>]
Remote(endpoint, req) == [e |-> "remote", n |-> 0, op |-> endpoint, req |-> req]

\* the result of a call: a returned value, or an exception that leaves the method
Return(v) == [outcome |-> "return", ret |-> v, exc |-> ""]
Raise(m) == [outcome |-> "raise", ret |-> None, exc |-> m]

\* variant: the event is logged before the counter is incremented
increment_counter_log_first(c, endpoint) ==
    [counter |-> c + 1, event |-> Logged(c, endpoint)]

\* _increment_counter(endpoint), from counter value c
increment_counter(c, endpoint) ==
    [counter |-> c + 1, event |-> Logged(c + 1, endpoint)]

----------------------------------------------------------------------------
(* The remote platform: mutations.  Each gives the set of possible answers  *)
(* to a request, with the remote state after it.                           *)

Store == [p |-> rProfiles, r |-> rRecords, a |-> rAssigns, n |-> rNextId]
Failed(m) == [out |-> APIError(m), store |-> Store]

\* a create that was carried out, leaving the store st: the SDK gives back the
\* JSON body of the response, which holds the created object, or is an empty
\* object, or None when the response has no body
Created(body, st) ==
    {[out |-> Ok(body), store |-> st],
     [out |-> Ok(EmptyDict), store |-> st],
     [out |-> Ok(None), store |-> st]}

createOrganizationApplianceDnsLocalProfile(req) ==
    LET o == req[1]
        new == [profileId |-> GenId(rNextId), name |-> req[2]]
    IN  {Failed(Unavailable)}
        \cup Created(new, [Store EXCEPT !.p[o] = Append(@, new), !.n = @ + 1])

createOrganizationApplianceDnsLocalRecord(req) ==
    LET o == req[1]
        new == [recordId |-> GenId(rNextId), hostname |-> req[2], address |-> req[3],
                profile |-> req[4]]
    IN  IF HasId(rProfiles[o], "profileId", req[4].id)
        THEN {Failed(Unavailable)}
             \cup Created(new, [Store EXCEPT !.r[o] = Append(@, new), !.n = @ + 1])
        ELSE {Failed(NotFound)}

\* the batch is applied as a whole; the model holds batches of one item
bulkOrganizationApplianceDnsLocalProfilesAssignmentsCreate(req) ==
    LET o == req[1]
        item == req[2][1]
        new == [assignmentId |-> GenId(rNextId), network |-> item.network,
                profile |-> item.profile]
        valid == /\ Len(req[2]) = 1
                 /\ HasId(rNets[o], "id", item.network.id)
                 /\ HasId(rProfiles[o], "profileId", item.profile.id)
                 /\ ~\E i \in 1..Len(rAssigns[o]) :
                        /\ rAssigns[o][i].network = item.network
                        /\ rAssigns[o][i].profile = item.profile
    IN  IF valid
        THEN {Failed(Unavailable)}
             \cup Created([items |-> <<new>>],
                          [Store EXCEPT !.a[o] = Append(@, new), !.n = @ + 1])
        ELSE {Failed(BadRequest)}

deleteOrganizationApplianceDnsLocalProfile(req) ==
    LET o == req[1]
    IN  IF HasId(rProfiles[o], "profileId", req[2])
        THEN {Failed(Unavailable),
              [out |-> Ok(None),
               store |-> [Store EXCEPT !.p[o] = Without(@, "profileId", req[2])]]}
        ELSE {Failed(NotFound)}

deleteOrganizationApplianceDnsLocalRecord(req) ==
    LET o == req[1]
    IN  IF HasId(rRecords[o], "recordId", req[2])
        THEN {Failed(Unavailable),
              [out |-> Ok(None),
               store |-> [Store EXCEPT !.r[o] = Without(@, "recordId", req[2])]]}
        ELSE {Failed(NotFound)}

createOrganizationApplianceDnsLocalProfilesAssignmentsBulkDelete(req) ==
    LET o == req[1]
        item == req[2][1]
    IN  IF Len(req[2]) = 1 /\ HasId(rAssigns[o], "assignmentId", item.assignmentId)
        THEN {Failed(Unavailable),
              [out |-> Ok(None),
               store |-> [Store EXCEPT !.a[o] = Without(@, "assignmentId", item.assignmentId)]]}
        ELSE {Failed(NotFound)}

----------------------------------------------------------------------------
(* Endpoint names, as logged *)

EP_getOrganizations == "organizations.getOrganizations"
EP_getOrganizationNetworks == "organizations.getOrganizationNetworks"
EP_listProfiles == "appliance.getOrganizationApplianceDnsLocalProfiles"
EP_createProfile == "appliance.createOrganizationApplianceDnsLocalProfile"
EP_listRecords == "appliance.getOrganizationApplianceDnsLocalRecords"
EP_createRecord == "appliance.createOrganizationApplianceDnsLocalRecord"
EP_listAssignments == "appliance.getOrganizationApplianceDnsLocalProfilesAssignments"
EP_bulkCreate == "appliance.bulkOrganizationApplianceDnsLocalProfilesAssignmentsCreate"
EP_deleteProfile == "appliance.deleteOrganizationApplianceDnsLocalProfile"
EP_deleteRecord == "appliance.deleteOrganizationApplianceDnsLocalRecord"
EP_bulkDelete == "appliance.createOrganizationApplianceDnsLocalProfilesAssignmentsBulkDelete"

----------------------------------------------------------------------------
(* st.cache_data *)

\* an entry holds the value stored and its age; n counts the times the
\* function ran and its value was stored under this key
NoEntry == [has |-> FALSE, value |-> <<>>, age |-> 0, n |-> 0]
Entry(v, n) == [has |-> TRUE, value |-> v, age |-> 0, n |-> n]

\* an entry is served while it is younger than its ttl
Fresh(entry, ttl) == entry.has /\ entry.age < ttl

\* an entry after d seconds; an expired one stays expired
Aged(entry, ttl, d) ==
    IF entry.has THEN [entry EXCEPT !.age = Min(@ + d, ttl)] ELSE entry

----------------------------------------------------------------------------
(* ProjectLogic: each method as a function of the counter value c it starts *)
(* from, its arguments and the remote's answer out.  It gives the counter   *)
(* after it, its events in order and its result.                            *)

\* variant: organization_id left out of the key, as an underscore argument is
get_networks_key_constant(organization_id) == "o1"

\* the key st.cache_data derives from the arguments (_self is left out)
get_networks_key(organization_id) == organization_id

\* variant: the organizations are cached under the networks' ttl
get_organizations_call_medium(c, entry, out) ==
    IF Fresh(entry, CACHE_CONFIG.medium)
    THEN [counter |-> c, events |-> <<Entered("get_organizations")>>,
          res |-> Return(entry.value), entry |-> entry, called |-> FALSE]
    ELSE LET inc == increment_counter(c, EP_getOrganizations)
         IN  [counter |-> inc.counter,
              events |-> <<Entered("get_organizations"), inc.event,
                           Remote(EP_getOrganizations, <<>>)>>,
              res |-> IF out.ok THEN Return(out.val) ELSE Raise(out.msg),
              entry |-> IF out.ok THEN Entry(out.val, entry.n + 1) ELSE entry,
              called |-> TRUE]

get_organizations_call(c, entry, out) ==
    IF Fresh(entry, CACHE_CONFIG.long)
    THEN [counter |-> c, events |-> <<Entered("get_organizations")>>,
          res |-> Return(entry.value), entry |-> entry, called |-> FALSE]
    ELSE LET inc == increment_counter(c, EP_getOrganizations)
         IN  [counter |-> inc.counter,
              events |-> <<Entered("get_organizations"), inc.event,
                           Remote(EP_getOrganizations, <<>>)>>,
              res |-> IF out.ok THEN Return(out.val) ELSE Raise(out.msg),
              entry |-> IF out.ok THEN Entry(out.val, entry.n + 1) ELSE entry,
              called |-> TRUE]

get_networks_call(c, entry, organization_id, out) ==
    IF Fresh(entry, CACHE_CONFIG.medium)
    THEN [counter |-> c, events |-> <<Entered("get_networks")>>,
          res |-> Return(entry.value), entry |-> entry, called |-> FALSE]
    ELSE LET inc == increment_counter(c, EP_getOrganizationNetworks)
         IN  [counter |-> inc.counter,
              events |-> <<Entered("get_networks"), inc.event,
                           Remote(EP_getOrganizationNetworks, <<organization_id>>)>>,
              res |-> IF out.ok THEN Return(out.val) ELSE Raise(out.msg),
              entry |-> IF out.ok THEN Entry(out.val, entry.n + 1) ELSE entry,
              called |-> TRUE]

\* variant: the key "item" in place of "items"
list_profiles_call_typo(c, org_id, out) ==
    LET inc == increment_counter(c, EP_listProfiles)
    IN  [counter |-> inc.counter,
         events |-> <<Entered("list_profiles"), inc.event,
                      Remote(EP_listProfiles, <<org_id>>)>>,
         res |-> IF out.ok THEN Return(Get(out.val, "item", <<>>))
                 ELSE Return(<<>>)]

list_profiles_call(c, org_id, out) ==
    LET inc == increment_counter(c, EP_listProfiles)
    IN  [counter |-> inc.counter,
         events |-> <<Entered("list_profiles"), inc.event,
                      Remote(EP_listProfiles, <<org_id>>)>>,
         res |-> IF out.ok THEN Return(Get(out.val, "items", <<>>))
                 ELSE Return(<<>>)]

\* variant: a failed remote call is made once more before giving up
list_dns_records_call_retry(c, org_id, out) ==
    LET inc == increment_counter(c, EP_listRecords)
    IN  [counter |-> inc.counter,
         events |-> IF out.ok
                    THEN <<Entered("list_dns_records"), inc.event,
                           Remote(EP_listRecords, <<org_id>>)>>
                    ELSE <<Entered("list_dns_records"), inc.event,
                           Remote(EP_listRecords, <<org_id>>),
                           Remote(EP_listRecords, <<org_id>>)>>,
         res |-> IF out.ok THEN Return(Get(out.val, "items", <<>>))
                 ELSE Return(<<>>)]

list_dns_records_call(c, org_id, out) ==
    LET inc == increment_counter(c, EP_listRecords)
    IN  [counter |-> inc.counter,
         events |-> <<Entered("list_dns_records"), inc.event,
                      Remote(EP_listRecords, <<org_id>>)>>,
         res |-> IF out.ok THEN Return(Get(out.val, "items", <<>>))
                 ELSE Return(<<>>)]

\* variant: response["items"] in place of response.get("items", []); the
\* KeyError is no meraki.APIError and leaves the method
list_assignments_call_subscript(c, org_id, out) ==
    LET inc == increment_counter(c, EP_listAssignments)
    IN  [counter |-> inc.counter,
         events |-> <<Entered("list_assignments"), inc.event,
                      Remote(EP_listAssignments, <<org_id>>)>>,
         res |-> IF out.ok
                 THEN IF "items" \in DOMAIN out.val THEN Return(out.val.items)
                      ELSE Raise("KeyError: 'items'")
                 ELSE Return(<<>>)]

list_assignments_call(c, org_id, out) ==
    LET inc == increment_counter(c, EP_listAssignments)
    IN  [counter |-> inc.counter,
         events |-> <<Entered("list_assignments"), inc.event,
                      Remote(EP_listAssignments, <<org_id>>)>>,
         res |-> IF out.ok THEN Return(Get(out.val, "items", <<>>))
                 ELSE Return(<<>>)]

\* the arguments each mutation passes to the SDK
create_profile_request(org_id, name) == <<org_id, name>>
create_dns_record_request(org_id, profile_id, hostname, address) ==
    <<org_id, hostname, address, [id |-> profile_id]>>
\* variant: the pair is submitted twice in one batch
assign_profile_request_twice(org_id, network_id, profile_id) ==
    <<org_id, <<[network |-> [id |-> network_id], profile |-> [id |-> profile_id]],
               [network |-> [id |-> network_id], profile |-> [id |-> profile_id]]>> >>

assign_profile_request(org_id, network_id, profile_id) ==
    <<org_id, <<[network |-> [id |-> network_id], profile |-> [id |-> profile_id]]>> >>
delete_profile_request(org_id, profile_id) == <<org_id, profile_id>>
delete_dns_record_request(org_id, record_id) == <<org_id, record_id>>
remove_assignment_request(org_id, assignment_id) ==
    <<org_id, <<[assignmentId |-> assignment_id]>> >>

create_profile_call(c, req, out) ==
    LET inc == increment_counter(c, EP_createProfile)
    IN  [counter |-> inc.counter,
         events |-> <<Entered("create_profile"), inc.event, Remote(EP_createProfile, req)>>,
         res |-> IF out.ok THEN Return(out.val) ELSE Return([error |-> out.msg])]

create_dns_record_call(c, req, out) ==
    LET inc == increment_counter(c, EP_createRecord)
    IN  [counter |-> inc.counter,
         events |-> <<Entered("create_dns_record"), inc.event, Remote(EP_createRecord, req)>>,
         res |-> IF out.ok THEN Return(out.val) ELSE Return([error |-> out.msg])]

assign_profile_call(c, req, out) ==
    LET inc == increment_counter(c, EP_bulkCreate)
    IN  [counter |-> inc.counter,
         events |-> <<Entered("assign_profile"), inc.event, Remote(EP_bulkCreate, req)>>,
         res |-> IF out.ok THEN Return(out.val) ELSE Return([error |-> out.msg])]

\* variant: no handler around the SDK call
delete_profile_call_unhandled(c, req, out) ==
    LET inc == increment_counter(c, EP_deleteProfile)
    IN  [counter |-> inc.counter,
         events |-> <<Entered("delete_profile"), inc.event, Remote(EP_deleteProfile, req)>>,
         res |-> IF out.ok
                 THEN Return(IF out.val # None THEN out.val ELSE EmptyDict)
                 ELSE Raise(out.msg)]

delete_profile_call(c, req, out) ==
    LET inc == increment_counter(c, EP_deleteProfile)
    IN  [counter |-> inc.counter,
         events |-> <<Entered("delete_profile"), inc.event, Remote(EP_deleteProfile, req)>>,
         res |-> IF out.ok
                 THEN Return(IF out.val # None THEN out.val ELSE EmptyDict)
                 ELSE Return([error |-> out.msg])]

\* variant: return res as the SDK gave it
delete_dns_record_call_raw(c, req, out) ==
    LET inc == increment_counter(c, EP_deleteRecord)
    IN  [counter |-> inc.counter,
         events |-> <<Entered("delete_dns_record"), inc.event, Remote(EP_deleteRecord, req)>>,
         res |-> IF out.ok THEN Return(out.val) ELSE Return([error |-> out.msg])]

delete_dns_record_call(c, req, out) ==
    LET inc == increment_counter(c, EP_deleteRecord)
    IN  [counter |-> inc.counter,
         events |-> <<Entered("delete_dns_record"), inc.event, Remote(EP_deleteRecord, req)>>,
         res |-> IF out.ok
                 THEN Return(IF out.val # None THEN out.val ELSE EmptyDict)
                 ELSE Return([error |-> out.msg])]

remove_assignment_call(c, req, out) ==
    LET inc == increment_counter(c, EP_bulkDelete)
    IN  [counter |-> inc.counter,
         events |-> <<Entered("remove_assignment"), inc.event, Remote(EP_bulkDelete, req)>>,
         res |-> IF out.ok
                 THEN Return(IF out.val # None THEN out.val ELSE EmptyDict)
                 ELSE Return([error |-> out.msg])]

----------------------------------------------------------------------------
(* The record of a call *)

NoAnswer == [ok |-> FALSE, val |-> None, msg |-> ""]

\* absent: the id the call names was not on the remote when the call was made;
\* again: the call before it (prev) was the same method with the same arguments
Called(prev, op, org, args, called, out, res, absent) ==
    [op |-> op, org |-> org, args |-> args, called |-> called,
     out |-> IF called THEN out ELSE NoAnswer,
     outcome |-> res.outcome, ret |-> res.ret, exc |-> res.exc, absent |-> absent,
     again |-> (prev.op = op /\ prev.org = org /\ prev.args = args)]

NoCall ==
    [op |-> "none", org |-> "", args |-> <<>>, called |-> FALSE, out |-> NoAnswer,
     outcome |-> "return", ret |-> None, exc |-> "", absent |-> FALSE, again |-> FALSE]

NoDisplay == [mode |-> "none"]

Init ==
    /\ API_CALL_COUNTER = 0
    /\ orgCache = NoEntry
    /\ netCache = [o \in Orgs |-> NoEntry]
    /\ rOrgs = <<Org1, Org2>>
    /\ rNets = [o \in Orgs |-> IF o = "o1" THEN <<Net1>> ELSE <<Net2>>]
    /\ rProfiles = [o \in Orgs |-> <<>>]
    /\ rRecords = [o \in Orgs |-> <<>>]
    /\ rAssigns = [o \in Orgs |-> <<>>]
    /\ rNextId = 1
    /\ last = NoCall
    /\ trace = <<>>
    /\ display = NoDisplay

----------------------------------------------------------------------------
(* Steps of the program: one call of a ProjectLogic method *)

get_organizations ==
    /\ Fresh(orgCache, CACHE_CONFIG.long) \/ API_CALL_COUNTER < MaxCalls
    /\ \E out \in getOrganizations :
         LET k == get_organizations_call(API_CALL_COUNTER, orgCache, out)
         IN  /\ API_CALL_COUNTER' = k.counter
             /\ orgCache' = k.entry
             /\ trace' = k.events
             /\ last' = Called(last, "get_organizations", "", <<>>, k.called, out, k.res, FALSE)
    /\ UNCHANGED <<netCache, remoteVars, display>>

get_networks(organization_id) ==
    /\ Fresh(netCache[get_networks_key(organization_id)], CACHE_CONFIG.medium)
       \/ API_CALL_COUNTER < MaxCalls
    /\ \E out \in getOrganizationNetworks(organization_id) :
         LET key == get_networks_key(organization_id)
             k == get_networks_call(API_CALL_COUNTER, netCache[key],
                                    organization_id, out)
         IN  /\ API_CALL_COUNTER' = k.counter
             /\ netCache' = [netCache EXCEPT ![key] = k.entry]
             /\ trace' = k.events
             /\ last' = Called(last, "get_networks", organization_id, <<>>, k.called, out,
                               k.res, FALSE)
    /\ UNCHANGED <<orgCache, remoteVars, display>>

list_profiles(org_id) ==
    /\ API_CALL_COUNTER < MaxCalls
    /\ \E out \in getOrganizationApplianceDnsLocalProfiles(org_id) :
         LET k == list_profiles_call(API_CALL_COUNTER, org_id, out)
         IN  /\ API_CALL_COUNTER' = k.counter
             /\ trace' = k.events
             /\ last' = Called(last, "list_profiles", org_id, <<>>, TRUE, out, k.res, FALSE)
    /\ UNCHANGED <<cacheVars, remoteVars, display>>

list_dns_records(org_id) ==
    /\ API_CALL_COUNTER < MaxCalls
    /\ \E out \in getOrganizationApplianceDnsLocalRecords(org_id) :
         LET k == list_dns_records_call(API_CALL_COUNTER, org_id, out)
         IN  /\ API_CALL_COUNTER' = k.counter
             /\ trace' = k.events
             /\ last' = Called(last, "list_dns_records", org_id, <<>>, TRUE, out, k.res, FALSE)
    /\ UNCHANGED <<cacheVars, remoteVars, display>>

list_assignments(org_id) ==
    /\ API_CALL_COUNTER < MaxCalls
    /\ \E out \in getOrganizationApplianceDnsLocalProfilesAssignments(org_id) :
         LET k == list_assignments_call(API_CALL_COUNTER, org_id, out)
         IN  /\ API_CALL_COUNTER' = k.counter
             /\ trace' = k.events
             /\ last' = Called(last, "list_assignments", org_id, <<>>, TRUE, out, k.res, FALSE)
    /\ UNCHANGED <<cacheVars, remoteVars, display>>

\* what a mutation leaves behind: the remote state rem.store, the counter,
\* the events and the record of the call
Mutated(op, org_id, args, k, rem, absent) ==
    /\ API_CALL_COUNTER' = k.counter
    /\ trace' = k.events
    /\ last' = Called(last, op, org_id, args, TRUE, rem.out, k.res, absent)
    /\ rProfiles' = rem.store.p
    /\ rRecords' = rem.store.r
    /\ rAssigns' = rem.store.a
    /\ rNextId' = rem.store.n
    /\ UNCHANGED <<cacheVars, rOrgs, rNets, display>>

create_profile(org_id, name) ==
    /\ API_CALL_COUNTER < MaxCalls
    /\ rNextId <= MaxIds
    /\ LET req == create_profile_request(org_id, name)
       IN  \E rem \in createOrganizationApplianceDnsLocalProfile(req) :
             Mutated("create_profile", org_id, <<name>>,
                     create_profile_call(API_CALL_COUNTER, req, rem.out), rem, FALSE)

create_dns_record(org_id, profile_id, hostname, address) ==
    /\ API_CALL_COUNTER < MaxCalls
    /\ rNextId <= MaxIds
    /\ LET req == create_dns_record_request(org_id, profile_id, hostname, address)
       IN  \E rem \in createOrganizationApplianceDnsLocalRecord(req) :
             Mutated("create_dns_record", org_id, <<profile_id, hostname, address>>,
                     create_dns_record_call(API_CALL_COUNTER, req, rem.out), rem,
                     ~HasId(rProfiles[org_id], "profileId", profile_id))

assign_profile(org_id, network_id, profile_id) ==
    /\ API_CALL_COUNTER < MaxCalls
    /\ rNextId <= MaxIds
    /\ LET req == assign_profile_request(org_id, network_id, profile_id)
       IN  \E rem \in bulkOrganizationApplianceDnsLocalProfilesAssignmentsCreate(req) :
             Mutated("assign_profile", org_id, <<network_id, profile_id>>,
                     assign_profile_call(API_CALL_COUNTER, req, rem.out), rem,
                     ~HasId(rProfiles[org_id], "profileId", profile_id))

\* variant: the caches are cleared after a delete (st.cache_data.clear())
delete_profile_clearing(org_id, profile_id) ==
    /\ API_CALL_COUNTER < MaxCalls
    /\ LET req == delete_profile_request(org_id, profile_id)
       IN  \E rem \in deleteOrganizationApplianceDnsLocalProfile(req) :
             LET k == delete_profile_call(API_CALL_COUNTER, req, rem.out)
             IN  /\ API_CALL_COUNTER' = k.counter
                 /\ trace' = k.events
                 /\ last' = Called(last, "delete_profile", org_id, <<profile_id>>, TRUE,
                                   rem.out, k.res,
                                   ~HasId(rProfiles[org_id], "profileId", profile_id))
                 /\ rProfiles' = rem.store.p
                 /\ rRecords' = rem.store.r
                 /\ rAssigns' = rem.store.a
                 /\ rNextId' = rem.store.n
                 /\ orgCache' = NoEntry
                 /\ netCache' = [o \in Orgs |-> NoEntry]
                 /\ UNCHANGED <<rOrgs, rNets, display>>

delete_profile(org_id, profile_id) ==
    /\ API_CALL_COUNTER < MaxCalls
    /\ LET req == delete_profile_request(org_id, profile_id)
       IN  \E rem \in deleteOrganizationApplianceDnsLocalProfile(req) :
             Mutated("delete_profile", org_id, <<profile_id>>,
                     delete_profile_call(API_CALL_COUNTER, req, rem.out), rem,
                     ~HasId(rProfiles[org_id], "profileId", profile_id))

delete_dns_record(org_id, record_id) ==
    /\ API_CALL_COUNTER < MaxCalls
    /\ LET req == delete_dns_record_request(org_id, record_id)
       IN  \E rem \in deleteOrganizationApplianceDnsLocalRecord(req) :
             Mutated("delete_dns_record", org_id, <<record_id>>,
                     delete_dns_record_call(API_CALL_COUNTER, req, rem.out), rem,
                     ~HasId(rRecords[org_id], "recordId", record_id))

remove_assignment(org_id, assignment_id) ==
    /\ API_CALL_COUNTER < MaxCalls
    /\ LET req == remove_assignment_request(org_id, assignment_id)
       IN  \E rem \in createOrganizationApplianceDnsLocalProfilesAssignmentsBulkDelete(req) :
             Mutated("remove_assignment", org_id, <<assignment_id>>,
                     remove_assignment_call(API_CALL_COUNTER, req, rem.out), rem,
                     ~HasId(rAssigns[org_id], "assignmentId", assignment_id))

----------------------------------------------------------------------------
(* Steps of the environment *)

\* time passes
Tick(d) ==
    /\ orgCache' = Aged(orgCache, CACHE_CONFIG.long, d)
    /\ netCache' = [o \in Orgs |-> Aged(netCache[o], CACHE_CONFIG.medium, d)]
    /\ UNCHANGED <<API_CALL_COUNTER, remoteVars, last, trace, display>>

\* an organization is added or removed on the remote console
RemoteOrgsChange ==
    /\ rOrgs' \in OrgLists \ {rOrgs}
    /\ UNCHANGED <<API_CALL_COUNTER, cacheVars, rNets, storeVars, last, trace, display>>

\* a network is added or removed on the remote console
RemoteNetsChange(o) ==
    /\ \E l \in NetLists(o) \ {rNets[o]} : rNets' = [rNets EXCEPT ![o] = l]
    /\ UNCHANGED <<API_CALL_COUNTER, cacheVars, rOrgs, storeVars, last, trace, display>>

Next ==
    \/ get_organizations
    \/ \E o \in Orgs : get_networks(o)
    \/ \E o \in Orgs : list_profiles(o)
    \/ \E o \in Orgs : list_dns_records(o)
    \/ \E o \in Orgs : list_assignments(o)
    \/ \E o \in Orgs, n \in Names : create_profile(o, n)
    \/ \E o \in Orgs, p \in Ids, h \in Hostnames, a \in Addresses :
          create_dns_record(o, p, h, a)
    \/ \E o \in Orgs, n \in NetIds, p \in Ids : assign_profile(o, n, p)
    \/ \E o \in Orgs, p \in Ids : delete_profile(o, p)
    \/ \E o \in Orgs, r \in Ids : delete_dns_record(o, r)
    \/ \E o \in Orgs, a \in Ids : remove_assignment(o, a)
    \/ \E d \in ClockSteps : Tick(d)
    \/ RemoteOrgsChange
    \/ \E o \in Orgs : RemoteNetsChange(o)

Spec == Init /\ [][Next]_vars

----------------------------------------------------------------------------
(* web.py: one run of the page, run_web, with no button pressed.  The run   *)
(* fetches the organizations, takes the organization chosen in the sidebar  *)
(* and renders the table of the chosen mode.                                *)

\* a dict comprehension {x[k]: x[v] for x in s}: a later item with the same
\* key replaces an earlier one
DictOf(s, k, v) ==
    [key \in {s[i][k] : i \in 1..Len(s)} |->
        s[CHOOSE i \in 1..Len(s) :
             s[i][k] = key /\ \A j \in (i + 1)..Len(s) : s[j][k] # key][v]]

MapSeq(s, F(_)) == [i \in 1..Len(s) |-> F(s[i])]

org_map(orgs) == DictOf(orgs, "name", "id")

\* variant: the comprehension's key and value exchanged
records_prof_lookup_swapped(profiles) == DictOf(profiles, "name", "profileId")

\* DNS Records: profile id -> name
records_prof_lookup(profiles) == DictOf(profiles, "profileId", "name")

\* Network Assignments: network id -> name, profile id -> name
net_lookup(nets) == DictOf(nets, "id", "name")
assign_prof_lookup(profs) == DictOf(profs, "profileId", "name")

profile_row(p) == [profileId |-> p.profileId, name |-> p.name]

record_row(r, prof_lookup) ==
    LET pid == Get(Get(r, "profile", EmptyDict), "id", "N/A")
        pname == Get(prof_lookup, pid, "Unknown")
    IN  [recordId |-> r.recordId, hostname |-> r.hostname, address |-> r.address,
         pname |-> pname, pid |-> pid]

assignment_row(a, nets, profs) ==
    LET n_id == Get(Get(a, "network", EmptyDict), "id", None)
        p_id == Get(Get(a, "profile", EmptyDict), "id", None)
        n_name == Get(nets, n_id, "Unknown")
        p_name == Get(profs, p_id, "Unknown")
    IN  [assignmentId |-> a.assignmentId, n_name |-> n_name, n_id |-> n_id,
         p_name |-> p_name, p_id |-> p_id]

\* the page of the except branch: st.error("Application Error: ...")
ErrorPage(m) == [mode |-> "error", error |-> m]
Page(mode, org_id, fetched, rows) ==
    [mode |-> mode, org |-> org_id, fetched |-> fetched, rows |-> rows]

\* the state a run leaves behind
Shown(c, events, l, orgEntry, nets, page) ==
    /\ API_CALL_COUNTER' = c
    /\ trace' = events
    /\ last' = l
    /\ orgCache' = orgEntry
    /\ netCache' = nets
    /\ display' = page
    /\ UNCHANGED remoteVars

\* mode "Profiles", after the organizations call g (its record gl)
ProfilesPage(g, gl, org_id) ==
    \E a \in getOrganizationApplianceDnsLocalProfiles(org_id) :
      LET k == list_profiles_call(g.counter, org_id, a)
          kl == Called(gl, "list_profiles", org_id, <<>>, TRUE, a, k.res, FALSE)
      IN  Shown(k.counter, g.events \o k.events, kl, g.entry, netCache,
                IF k.res.outcome = "raise" THEN ErrorPage(k.res.exc)
                ELSE Page("Profiles", org_id, [profiles |-> k.res.ret],
                          MapSeq(k.res.ret, profile_row)))

\* mode "DNS Records"
RecordsPage(g, gl, org_id) ==
    \E a \in getOrganizationApplianceDnsLocalRecords(org_id),
       b \in getOrganizationApplianceDnsLocalProfiles(org_id) :
      LET k == list_dns_records_call(g.counter, org_id, a)
          kl == Called(gl, "list_dns_records", org_id, <<>>, TRUE, a, k.res, FALSE)
          m == list_profiles_call(k.counter, org_id, b)
          ml == Called(kl, "list_profiles", org_id, <<>>, TRUE, b, m.res, FALSE)
          row(r) == record_row(r, records_prof_lookup(m.res.ret))
      IN  IF k.res.outcome = "raise"
          THEN Shown(k.counter, g.events \o k.events, kl, g.entry, netCache,
                     ErrorPage(k.res.exc))
          ELSE Shown(m.counter, g.events \o k.events \o m.events, ml, g.entry, netCache,
                     IF m.res.outcome = "raise" THEN ErrorPage(m.res.exc)
                     ELSE Page("DNS Records", org_id,
                               [records |-> k.res.ret, profiles |-> m.res.ret],
                               MapSeq(k.res.ret, row)))

\* mode "Network Assignments"
AssignmentsPage(g, gl, org_id) ==
    \E a \in getOrganizationApplianceDnsLocalProfilesAssignments(org_id),
       b \in getOrganizationNetworks(org_id),
       d \in getOrganizationApplianceDnsLocalProfiles(org_id) :
      LET k == list_assignments_call(g.counter, org_id, a)
          kl == Called(gl, "list_assignments", org_id, <<>>, TRUE, a, k.res, FALSE)
          key == get_networks_key(org_id)
          n == get_networks_call(k.counter, netCache[key], org_id, b)
          nl == Called(kl, "get_networks", org_id, <<>>, n.called, b, n.res, FALSE)
          nets == [netCache EXCEPT ![key] = n.entry]
          m == list_profiles_call(n.counter, org_id, d)
          ml == Called(nl, "list_profiles", org_id, <<>>, TRUE, d, m.res, FALSE)
          row(x) == assignment_row(x, net_lookup(n.res.ret), assign_prof_lookup(m.res.ret))
      IN  IF k.res.outcome = "raise"
          THEN Shown(k.counter, g.events \o k.events, kl, g.entry, netCache,
                     ErrorPage(k.res.exc))
          ELSE IF n.res.outcome = "raise"
          THEN Shown(n.counter, g.events \o k.events \o n.events, nl, g.entry, nets,
                     ErrorPage(n.res.exc))
          ELSE Shown(m.counter, g.events \o k.events \o n.events \o m.events, ml,
                     g.entry, nets,
                     IF m.res.outcome = "raise" THEN ErrorPage(m.res.exc)
                     ELSE Page("Network Assignments", org_id,
                               [assigns |-> k.res.ret, nets |-> n.res.ret,
                                profiles |-> m.res.ret],
                               MapSeq(k.res.ret, row)))

Modes == {"Profiles", "DNS Records", "Network Assignments"}

run_web(mode) ==
    /\ API_CALL_COUNTER < MaxCalls
    /\ \E a \in getOrganizations :
         LET g == get_organizations_call(API_CALL_COUNTER, orgCache, a)
             gl == Called(last, "get_organizations", "", <<>>, g.called, a, g.res, FALSE)
         IN  IF g.res.outcome = "raise"
             THEN Shown(g.counter, g.events, gl, g.entry, netCache, ErrorPage(g.res.exc))
             ELSE IF g.res.ret = <<>>
             THEN Shown(g.counter, g.events, gl, g.entry, netCache,
                        ErrorPage("KeyError: None"))
             ELSE \E selected_org_name \in DOMAIN org_map(g.res.ret) :
                    LET org_id == org_map(g.res.ret)[selected_org_name]
                    IN  CASE mode = "Profiles" -> ProfilesPage(g, gl, org_id)
                          [] mode = "DNS Records" -> RecordsPage(g, gl, org_id)
                          [] mode = "Network Assignments" -> AssignmentsPage(g, gl, org_id)

\* what the remote can hold when the page is first opened: nothing; or
\* profiles, records and assignments of o1, some of them referring to a
\* profile or a network that was deleted since
Nothing == [o \in Orgs |-> <<>>]
Eng == [profileId |-> "11", name |-> "Eng"]
Ops == [profileId |-> "12", name |-> "Ops"]
DbRecord == [recordId |-> "21", hostname |-> "db.local", address |-> "10.0.0.5",
             profile |-> [id |-> "11"]]
OrphanRecord == [recordId |-> "22", hostname |-> "old.local", address |-> "10.0.0.9",
                 profile |-> [id |-> "19"]]
HqAssignment == [assignmentId |-> "31", network |-> [id |-> "n1"],
                 profile |-> [id |-> "12"]]
OrphanAssignment == [assignmentId |-> "32", network |-> [id |-> "n9"],
                     profile |-> [id |-> "19"]]
InitialStores ==
    {[p |-> Nothing, r |-> Nothing, a |-> Nothing],
     [p |-> [Nothing EXCEPT !["o1"] = <<Eng, Ops>>],
      r |-> [Nothing EXCEPT !["o1"] = <<DbRecord, OrphanRecord>>],
      a |-> [Nothing EXCEPT !["o1"] = <<HqAssignment, OrphanAssignment>>]],
     [p |-> [Nothing EXCEPT !["o2"] = <<Eng>>],
      r |-> [Nothing EXCEPT !["o1"] = <<OrphanRecord>>, !["o2"] = <<DbRecord>>],
      a |-> [Nothing EXCEPT !["o2"] = <<OrphanAssignment>>]]}

InitWeb ==
    /\ API_CALL_COUNTER = 0
    /\ orgCache = NoEntry
    /\ netCache = [o \in Orgs |-> NoEntry]
    /\ rOrgs = <<Org1, Org2>>
    /\ rNets = [o \in Orgs |-> IF o = "o1" THEN <<Net1>> ELSE <<Net2>>]
    /\ \E st \in InitialStores :
         /\ rProfiles = st.p
         /\ rRecords = st.r
         /\ rAssigns = st.a
    /\ rNextId = 1
    /\ last = NoCall
    /\ trace = <<>>
    /\ display = NoDisplay

NextWeb ==
    \/ \E mode \in Modes : run_web(mode)
    \/ \E d \in ClockSteps : Tick(d)
    \/ RemoteOrgsChange
    \/ \E o \in Orgs : RemoteNetsChange(o)

SpecWeb == InitWeb /\ [][NextWeb]_vars

----------------------------------------------------------------------------
(* web.py: a run of the page with one button pressed.  The run fetches and  *)
(* renders as any run does; when it reaches the pressed button it calls the *)
(* ProjectLogic method and notifies the user of the result.                 *)

\* st.toast(...): the success texts are the literals of web.py; an error toast
\* carries the message after "Error: "
ToastSuccess(text) == [kind |-> "success", text |-> text]
ToastError(m) == [kind |-> "error", text |-> m]
ToastWarning(text) == [kind |-> "warning", text |-> text]
NoToast == [kind |-> "none", text |-> ""]

\* variant: any result that is not empty counts as a success
create_handler_truthy_only(res, done) ==
    IF Truthy(res)
    THEN [toast |-> ToastSuccess(done), rerun |-> TRUE, exc |-> ""]
    ELSE IF res = None
    THEN [toast |-> NoToast, rerun |-> FALSE,
          exc |-> "'NoneType' object has no attribute 'get'"]
    ELSE [toast |-> ToastError(Get(res, "error", "Unknown")), rerun |-> FALSE,
          exc |-> ""]

\* the create buttons:
\*   if res and "error" not in res: toast success; rerun
\*   else: toast "Error: " + res.get('error', 'Unknown')
\* res.get on None raises AttributeError, which leaves the handler
create_handler(res, done) ==
    IF Truthy(res) /\ "error" \notin DOMAIN res
    THEN [toast |-> ToastSuccess(done), rerun |-> TRUE, exc |-> ""]
    ELSE IF res = None
    THEN [toast |-> NoToast, rerun |-> FALSE,
          exc |-> "'NoneType' object has no attribute 'get'"]
    ELSE [toast |-> ToastError(Get(res, "error", "Unknown")), rerun |-> FALSE,
          exc |-> ""]

\* the delete buttons:
\*   if not res or "error" not in res: toast success; rerun
\*   else: toast "Error: " + res['error']
delete_handler(res, done) ==
    IF ~Truthy(res) \/ "error" \notin DOMAIN res
    THEN [toast |-> ToastSuccess(done), rerun |-> TRUE, exc |-> ""]
    ELSE [toast |-> ToastError(res.error), rerun |-> FALSE, exc |-> ""]

\* what the user is shown by a run with the button key pressed: handled tells
\* whether the ProjectLogic method was called; error is the message of
\* st.error("Application Error: ...") when an exception reached run_web's except
Notified(mode, org_id, key, handled, h) ==
    [mode |-> mode, org |-> org_id, pressed |-> key, handled |-> handled,
     toast |-> h.toast, rerun |-> h.rerun, error |-> h.exc]

Warned(text) == [toast |-> ToastWarning(text), rerun |-> FALSE, exc |-> ""]

\* the state a run with a button pressed leaves behind
Clicked(c, events, l, orgEntry, nets, st, page) ==
    /\ API_CALL_COUNTER' = c
    /\ trace' = events
    /\ last' = l
    /\ orgCache' = orgEntry
    /\ netCache' = nets
    /\ rProfiles' = st.p
    /\ rRecords' = st.r
    /\ rAssigns' = st.a
    /\ rNextId' = st.n
    /\ display' = page
    /\ UNCHANGED <<rOrgs, rNets>>

\* the top of run_web: the organizations and the organization chosen
Opened ==
    {[g |-> get_organizations_call(API_CALL_COUNTER, orgCache, a),
      gl |-> Called(last, "get_organizations", "", <<>>,
                    get_organizations_call(API_CALL_COUNTER, orgCache, a).called, a,
                    get_organizations_call(API_CALL_COUNTER, orgCache, a).res, FALSE)] :
       a \in getOrganizations}

\* the run ends in run_web's except before any button is reached
Failing(t) ==
    /\ t.g.res.outcome = "raise"
    /\ Clicked(t.g.counter, t.g.events, t.gl, t.g.entry, netCache, Store,
               ErrorPage(t.g.res.exc))

OrgIds(t) ==
    IF t.g.res.outcome = "raise" THEN {}
    ELSE {org_map(t.g.res.ret)[n] : n \in DOMAIN org_map(t.g.res.ret)}

\* Profiles, the delete button of a rendered row
click_del_prof ==
    /\ API_CALL_COUNTER < MaxCalls
    /\ \E t \in Opened :
         \/ Failing(t)
         \/ \E org_id \in OrgIds(t) :
             \E a \in getOrganizationApplianceDnsLocalProfiles(org_id) :
              LET k == list_profiles_call(t.g.counter, org_id, a)
                  kl == Called(t.gl, "list_profiles", org_id, <<>>, TRUE, a, k.res, FALSE)
              IN  \E i \in 1..Len(k.res.ret) :
                    LET pid == k.res.ret[i].profileId
                        req == delete_profile_request(org_id, pid)
                    IN  \E rem \in deleteOrganizationApplianceDnsLocalProfile(req) :
                          LET d == delete_profile_call(k.counter, req, rem.out)
                              dl == Called(kl, "delete_profile", org_id, <<pid>>, TRUE,
                                           rem.out, d.res, FALSE)
                              h == delete_handler(d.res.ret, "Profile deleted successfully!")
                          IN  Clicked(d.counter, t.g.events \o k.events \o d.events, dl,
                                      t.g.entry, netCache, rem.store,
                                      Notified("Profiles", org_id, "del_prof", TRUE, h))

\* Profiles, the add button, with the name typed (or none)
click_add_prof(new_prof_name) ==
    /\ API_CALL_COUNTER < MaxCalls
    /\ rNextId <= MaxIds
    /\ \E t \in Opened :
         \/ Failing(t)
         \/ \E org_id \in OrgIds(t) :
             \E a \in getOrganizationApplianceDnsLocalProfiles(org_id) :
              LET k == list_profiles_call(t.g.counter, org_id, a)
                  kl == Called(t.gl, "list_profiles", org_id, <<>>, TRUE, a, k.res, FALSE)
                  req == create_profile_request(org_id, new_prof_name)
              IN  IF new_prof_name = ""
                  THEN Clicked(k.counter, t.g.events \o k.events, kl, t.g.entry,
                               netCache, Store,
                               Notified("Profiles", org_id, "add_prof_btn", FALSE,
                                        Warned("Please enter a profile name.")))
                  ELSE \E rem \in createOrganizationApplianceDnsLocalProfile(req) :
                         LET d == create_profile_call(k.counter, req, rem.out)
                             dl == Called(kl, "create_profile", org_id, <<new_prof_name>>,
                                          TRUE, rem.out, d.res, FALSE)
                             h == create_handler(d.res.ret, "Profile created!")
                         IN  Clicked(d.counter, t.g.events \o k.events \o d.events, dl,
                                     t.g.entry, netCache, rem.store,
                                     Notified("Profiles", org_id, "add_prof_btn", TRUE, h))

\* DNS Records: the two lists of the run
RecordsFetched(t, org_id) ==
    {[k |-> list_dns_records_call(t.g.counter, org_id, a),
      m |-> list_profiles_call(t.g.counter + 1, org_id, b),
      a |-> a, b |-> b] :
       a \in getOrganizationApplianceDnsLocalRecords(org_id),
       b \in getOrganizationApplianceDnsLocalProfiles(org_id)}

RecordsCalled(t, f, org_id) ==
    Called(Called(t.gl, "list_dns_records", org_id, <<>>, TRUE, f.a, f.k.res, FALSE),
           "list_profiles", org_id, <<>>, TRUE, f.b, f.m.res, FALSE)

\* DNS Records, the delete button of a rendered row
click_del_rec ==
    /\ API_CALL_COUNTER < MaxCalls
    /\ \E t \in Opened :
         \/ Failing(t)
         \/ \E org_id \in OrgIds(t) :
              \E f \in RecordsFetched(t, org_id) :
                \E i \in 1..Len(f.k.res.ret) :
                  LET rid == f.k.res.ret[i].recordId
                      req == delete_dns_record_request(org_id, rid)
                  IN  \E rem \in deleteOrganizationApplianceDnsLocalRecord(req) :
                        LET d == delete_dns_record_call(f.m.counter, req, rem.out)
                            dl == Called(RecordsCalled(t, f, org_id), "delete_dns_record",
                                         org_id, <<rid>>, TRUE, rem.out, d.res, FALSE)
                            h == delete_handler(d.res.ret, "DNS Record removed!")
                        IN  Clicked(d.counter,
                                    t.g.events \o f.k.events \o f.m.events \o d.events,
                                    dl, t.g.entry, netCache, rem.store,
                                    Notified("DNS Records", org_id, "del_rec", TRUE, h))

\* DNS Records, the add button: rendered when a profile is listed; the
\* profile is one of the select box, the host may be left empty
click_add_rec(new_host, new_addr) ==
    /\ API_CALL_COUNTER < MaxCalls
    /\ rNextId <= MaxIds
    /\ \E t \in Opened :
         \/ Failing(t)
         \/ \E org_id \in OrgIds(t) :
              \E f \in RecordsFetched(t, org_id) :
                \E j \in 1..Len(f.m.res.ret) :
                  LET profile_id == f.m.res.ret[j].profileId
                      req == create_dns_record_request(org_id, profile_id, new_host,
                                                       new_addr)
                      fl == RecordsCalled(t, f, org_id)
                  IN  IF new_host = "" \/ new_addr = ""
                      THEN Clicked(f.m.counter, t.g.events \o f.k.events \o f.m.events,
                                   fl, t.g.entry, netCache, Store,
                                   Notified("DNS Records", org_id, "add_rec_btn", FALSE,
                                            Warned("Please fill in all fields.")))
                      ELSE \E rem \in createOrganizationApplianceDnsLocalRecord(req) :
                             LET d == create_dns_record_call(f.m.counter, req, rem.out)
                                 dl == Called(fl, "create_dns_record", org_id,
                                              <<profile_id, new_host, new_addr>>, TRUE,
                                              rem.out, d.res, FALSE)
                                 h == create_handler(d.res.ret, "DNS Record created!")
                             IN  Clicked(d.counter,
                                         t.g.events \o f.k.events \o f.m.events \o d.events,
                                         dl, t.g.entry, netCache, rem.store,
                                         Notified("DNS Records", org_id, "add_rec_btn",
                                                  TRUE, h))

\* Network Assignments: the three fetches of the run
AssignmentsFetched(t, org_id) ==
    {[k |-> list_assignments_call(t.g.counter, org_id, a),
      n |-> get_networks_call(t.g.counter + 1, netCache[get_networks_key(org_id)],
                              org_id, b),
      a |-> a, b |-> b, d |-> d] :
       a \in getOrganizationApplianceDnsLocalProfilesAssignments(org_id),
       b \in getOrganizationNetworks(org_id),
       d \in getOrganizationApplianceDnsLocalProfiles(org_id)}

NetworksCalled(t, f, org_id) ==
    Called(Called(t.gl, "list_assignments", org_id, <<>>, TRUE, f.a, f.k.res, FALSE),
           "get_networks", org_id, <<>>, f.n.called, f.b, f.n.res, FALSE)

NetsAfter(f, org_id) == [netCache EXCEPT ![get_networks_key(org_id)] = f.n.entry]

\* get_networks raised: the run ends in run_web's except
NetworksFailing(t, f, org_id) ==
    /\ f.n.res.outcome = "raise"
    /\ Clicked(f.n.counter, t.g.events \o f.k.events \o f.n.events,
               NetworksCalled(t, f, org_id), t.g.entry, NetsAfter(f, org_id), Store,
               ErrorPage(f.n.res.exc))

\* Network Assignments, the remove button of a rendered row
click_del_assign ==
    /\ API_CALL_COUNTER < MaxCalls
    /\ \E t \in Opened :
         \/ Failing(t)
         \/ \E org_id \in OrgIds(t) :
              \E f \in AssignmentsFetched(t, org_id) :
                \/ NetworksFailing(t, f, org_id)
                \/ /\ f.n.res.outcome = "return"
                   /\ \E i \in 1..Len(f.k.res.ret) :
                        LET m == list_profiles_call(f.n.counter, org_id, f.d)
                            ml == Called(NetworksCalled(t, f, org_id), "list_profiles",
                                         org_id, <<>>, TRUE, f.d, m.res, FALSE)
                            aid == f.k.res.ret[i].assignmentId
                            req == remove_assignment_request(org_id, aid)
                        IN  \E rem \in
                              createOrganizationApplianceDnsLocalProfilesAssignmentsBulkDelete(req) :
                              LET d == remove_assignment_call(m.counter, req, rem.out)
                                  dl == Called(ml, "remove_assignment", org_id, <<aid>>,
                                               TRUE, rem.out, d.res, FALSE)
                                  h == delete_handler(d.res.ret, "Assignment removed!")
                              IN  Clicked(d.counter,
                                          t.g.events \o f.k.events \o f.n.events
                                             \o m.events \o d.events,
                                          dl, t.g.entry, NetsAfter(f, org_id), rem.store,
                                          Notified("Network Assignments", org_id,
                                                   "del_assign", TRUE, h))

\* Network Assignments, the add button: rendered when a network and a profile
\* are listed; both are chosen in select boxes
click_add_assign ==
    /\ API_CALL_COUNTER < MaxCalls
    /\ rNextId <= MaxIds
    /\ \E t \in Opened :
         \/ Failing(t)
         \/ \E org_id \in OrgIds(t) :
              \E f \in AssignmentsFetched(t, org_id) :
                \/ NetworksFailing(t, f, org_id)
                \/ /\ f.n.res.outcome = "return"
                   /\ LET m == list_profiles_call(f.n.counter, org_id, f.d)
                          ml == Called(NetworksCalled(t, f, org_id), "list_profiles",
                                       org_id, <<>>, TRUE, f.d, m.res, FALSE)
                      IN  \E i \in 1..Len(f.n.res.ret), j \in 1..Len(m.res.ret) :
                            LET network_id == f.n.res.ret[i].id
                                profile_id == m.res.ret[j].profileId
                                req == assign_profile_request(org_id, network_id,
                                                              profile_id)
                            IN  \E rem \in
                                  bulkOrganizationApplianceDnsLocalProfilesAssignmentsCreate(req) :
                                  LET d == assign_profile_call(m.counter, req, rem.out)
                                      dl == Called(ml, "assign_profile", org_id,
                                                   <<network_id, profile_id>>, TRUE,
                                                   rem.out, d.res, FALSE)
                                      h == create_handler(d.res.ret,
                                                          "Network assigned to profile!")
                                  IN  Clicked(d.counter,
                                              t.g.events \o f.k.events \o f.n.events
                                                 \o m.events \o d.events,
                                              dl, t.g.entry, NetsAfter(f, org_id),
                                              rem.store,
                                              Notified("Network Assignments", org_id,
                                                       "add_assign_btn", TRUE, h))

NextClick ==
    \/ click_del_prof
    \/ \E n \in Names \cup {""} : click_add_prof(n)
    \/ click_del_rec
    \/ \E h \in Hostnames \cup {""}, a \in Addresses : click_add_rec(h, a)
    \/ click_del_assign
    \/ click_add_assign
    \/ \E mode \in Modes : run_web(mode)
    \/ \E d \in ClockSteps : Tick(d)
    \/ RemoteOrgsChange
    \/ \E o \in Orgs : RemoteNetsChange(o)

SpecClick == InitWeb /\ [][NextClick]_vars

----------------------------------------------------------------------------
(* Properties *)

CachedOps == {"get_organizations", "get_networks"}
ListOps == {"list_profiles", "list_dns_records", "list_assignments"}
CreateOps == {"create_profile", "create_dns_record", "assign_profile"}
DeleteOps == {"delete_profile", "delete_dns_record", "remove_assignment"}
MutationOps == CreateOps \cup DeleteOps

HasError(res) == "error" \in DOMAIN res

\* C1: each of list_profiles, list_dns_records and list_assignments, for every
\* org_id, returns exactly the items sequence of the envelope the remote call
\* returned, in the same order; the empty sequence when the envelope has no
\* items field; and the empty sequence when the remote call raised a failure.
C1_ListUnwrapsEnvelope ==
    last.op \in ListOps =>
        /\ last.outcome = "return"
        /\ (last.out.ok /\ "items" \in DOMAIN last.out.val)
              => last.ret = last.out.val.items
        /\ (last.out.ok /\ "items" \notin DOMAIN last.out.val) => last.ret = <<>>
        /\ ~last.out.ok => last.ret = <<>>

\* a list call that returned two items, in the remote's order
C1_Witness ==
    /\ last.op \in ListOps
    /\ last.out.ok
    /\ "items" \in DOMAIN last.out.val
    /\ Len(last.ret) = 2
    /\ last.ret = rProfiles[last.org]

\* C2: no exception crosses the gateway boundary outward: every ProjectLogic
\* operation returns a value, whatever failure the remote transport raised.
C2_NoExceptionCrosses == last.outcome = "return"

\* C3: a mutation's returned value has an error field exactly when the remote
\* call failed: on success a create returns the remote's object unchanged and a
\* delete returns the empty success marker; on failure the result is an object
\* whose error field is a non-empty message.
C3_ErrorFieldIffFailed ==
    last.op \in MutationOps =>
        /\ last.outcome = "return"
        /\ HasError(last.ret) <=> ~last.out.ok
        /\ (last.out.ok /\ last.op \in CreateOps) => last.ret = last.out.val
        /\ (last.out.ok /\ last.op \in DeleteOps) => last.ret = EmptyDict
        /\ ~last.out.ok => (last.ret = [error |-> last.out.msg] /\ last.out.msg # "")

\* a delete that succeeded and gave the empty marker, after a create that gave
\* the created object
C3_Witness ==
    /\ last.op = "delete_dns_record"
    /\ last.out.ok
    /\ last.ret = EmptyDict
    /\ rNextId = 3

NumRemote(t) == Cardinality({i \in 1..Len(t) : t[i].e = "remote"})

\* C4: get_organizations over any sequence of calls and clock advances: a call
\* that finds the entry within its 24h window issues no remote call and serves
\* the stored value, so two calls inside one window issue one remote call; a
\* call that finds the entry absent or expired issues exactly one remote call
\* and replaces the stored value with what it fetched.
C4_OrganizationsCachedFor24h ==
    [][get_organizations =>
          IF orgCache.has /\ orgCache.age < 86400
          THEN /\ NumRemote(trace') = 0
               /\ API_CALL_COUNTER' = API_CALL_COUNTER
               /\ last'.outcome = "return"
               /\ last'.ret = orgCache.value
               /\ orgCache' = orgCache
          ELSE /\ NumRemote(trace') = 1
               /\ API_CALL_COUNTER' = API_CALL_COUNTER + 1
               /\ last'.out.ok =>
                    /\ last'.outcome = "return"
                    /\ last'.ret = rOrgs
                    /\ orgCache'.has /\ orgCache'.value = rOrgs /\ orgCache'.age = 0
                    /\ orgCache'.n = orgCache.n + 1]_vars

\* the organizations were fetched a second time, after the first entry had
\* expired, and the value stored is the remote's changed list
C4_Witness ==
    /\ last.op = "get_organizations"
    /\ last.called
    /\ orgCache.has /\ orgCache.n = 2 /\ orgCache.age = 0
    /\ orgCache.value = <<Org1>>
    /\ API_CALL_COUNTER = 2

\* C5: the network cache is keyed by organization id: what get_networks(o)
\* returns is a list the remote holds for o, never one fetched for another
\* organization, and an entry cached for one organization never suppresses the
\* first remote fetch for another.
C5_NetworksKeyedByOrg ==
    [][\A o \in Orgs :
          get_networks(o) =>
             /\ last'.outcome = "return" => last'.ret \in NetLists(o)
             /\ ~netCache[o].has => last'.called
             /\ \A q \in Orgs : netCache'[q].has => netCache'[q].value \in NetLists(q)
             /\ \A q \in Orgs \ {o} : netCache'[q] = netCache[q]]_vars

\* both organizations have an entry and the second was fetched live
C5_Witness ==
    /\ netCache["o1"].has /\ netCache["o1"].value = <<Net1>>
    /\ netCache["o2"].has /\ netCache["o2"].value = <<Net2>>
    /\ last.op = "get_networks" /\ last.org = "o2" /\ last.called
    /\ last.ret = <<Net2>>

\* a step that is a call of a list or mutation method
UncachedCallStep ==
    /\ last'.op \in ListOps \cup MutationOps
    /\ API_CALL_COUNTER' # API_CALL_COUNTER

SameStored(a, b) == a.has = b.has /\ a.value = b.value /\ a.n = b.n

\* C6: no list or mutation operation changes the cached organization list or a
\* cached network list; what is stored changes only when get_organizations or
\* get_networks finds its entry absent or expired, so inside the window
\* get_networks serves the stored list even when the remote's has changed.
C6_CacheChangesOnlyOnMiss ==
    [][/\ UncachedCallStep => UNCHANGED cacheVars
       /\ ~SameStored(orgCache', orgCache) =>
             get_organizations /\ ~(orgCache.has /\ orgCache.age < 86400)
       /\ \A o \in Orgs :
             /\ ~SameStored(netCache'[o], netCache[o]) =>
                   get_networks(o) /\ ~(netCache[o].has /\ netCache[o].age < 3600)
             /\ (get_networks(o) /\ netCache[o].has /\ netCache[o].age < 3600) =>
                   /\ last'.ret = netCache[o].value
                   /\ ~last'.called]_vars

\* get_networks served a stored list that the remote no longer holds, after a
\* mutation was made with the entry in place
C6_Witness ==
    /\ last.op = "get_networks"
    /\ ~last.called
    /\ last.outcome = "return"
    /\ last.ret # rNets[last.org]
    /\ rNextId > 1

\* C7: delete_profile called twice in a row with the same org_id and an id
\* that is not on the remote gives the same kind of outcome both times (an
\* error value both times, or an empty success both times) and neither raises.
C7_DeleteTwiceSameOutcome ==
    [][\A o \in Orgs, p \in Ids :
          (/\ last.op = "delete_profile" /\ last.org = o /\ last.args = <<p>>
           /\ last.absent
           /\ delete_profile(o, p))
          => /\ last.outcome = "return"
             /\ last'.outcome = "return"
             /\ HasError(last'.ret) <=> HasError(last.ret)
             /\ last'.absent]_vars

\* the second of two delete_profile calls in a row on an id that is gone
C7_Witness ==
    /\ last.op = "delete_profile"
    /\ last.again
    /\ last.absent
    /\ last.outcome = "return"
    /\ HasError(last.ret)

\* C8: profile and record lists are never cached: a list whose remote call
\* succeeds returns the remote's collection at the time of the call.  So the
\* list_profiles after a successful create_profile holds the new profile with
\* its generated id, the list_dns_records after a successful create_dns_record
\* holds the record with profile.id the id given, and the list_profiles after a
\* successful delete_profile no longer holds the profile.
C8_ListsReflectRemote ==
    [][\A o \in Orgs :
          /\ (list_profiles(o) /\ last'.out.ok) => last'.ret = rProfiles[o]
          /\ (list_dns_records(o) /\ last'.out.ok) => last'.ret = rRecords[o]
          /\ (/\ last.op = "create_profile" /\ last.org = o /\ last.out.ok
              /\ list_profiles(o) /\ last'.out.ok)
             => \E i \in 1..Len(last'.ret) :
                   /\ last'.ret[i].profileId = GenId(rNextId - 1)
                   /\ last'.ret[i].name = last.args[1]
          /\ (/\ last.op = "create_dns_record" /\ last.org = o /\ last.out.ok
              /\ list_dns_records(o) /\ last'.out.ok)
             => \E i \in 1..Len(last'.ret) :
                   /\ last'.ret[i].recordId = GenId(rNextId - 1)
                   /\ last'.ret[i].profile.id = last.args[1]
          /\ (/\ last.op = "delete_profile" /\ last.org = o /\ last.out.ok
              /\ list_profiles(o) /\ last'.out.ok)
             => ~HasId(last'.ret, "profileId", last.args[1])]_vars

\* list_dns_records after a profile and a record under it were created: the
\* record is listed with the profile's id
C8_Witness ==
    /\ last.op = "list_dns_records"
    /\ last.out.ok
    /\ API_CALL_COUNTER = 3
    /\ Len(last.ret) = 1
    /\ HasId(rProfiles[last.org], "profileId", last.ret[1].profile.id)

\* C9: when records and assignments are rendered, each referenced profile id
\* (and each assignment's network id) is resolved against the collections
\* obtained in the same run: if an item with that id is there, the name shown
\* is that item's name; if none is (a dangling reference), the name shown is
\* "Unknown" and the page is rendered all the same.
C9_LookupResolvesOrUnknown ==
    /\ display.mode = "DNS Records" =>
          /\ Len(display.rows) = Len(display.fetched.records)
          /\ \A i \in 1..Len(display.rows) :
                LET pid == display.fetched.records[i].profile.id
                    profiles == display.fetched.profiles
                IN  /\ display.rows[i].pid = pid
                    /\ IF HasId(profiles, "profileId", pid)
                       THEN \E j \in 1..Len(profiles) :
                               /\ profiles[j].profileId = pid
                               /\ profiles[j].name = display.rows[i].pname
                       ELSE display.rows[i].pname = "Unknown"
    /\ display.mode = "Network Assignments" =>
          /\ Len(display.rows) = Len(display.fetched.assigns)
          /\ \A i \in 1..Len(display.rows) :
                LET a == display.fetched.assigns[i]
                    profiles == display.fetched.profiles
                    nets == display.fetched.nets
                IN  /\ IF HasId(profiles, "profileId", a.profile.id)
                       THEN \E j \in 1..Len(profiles) :
                               /\ profiles[j].profileId = a.profile.id
                               /\ profiles[j].name = display.rows[i].p_name
                       ELSE display.rows[i].p_name = "Unknown"
                    /\ IF HasId(nets, "id", a.network.id)
                       THEN \E j \in 1..Len(nets) :
                               /\ nets[j].id = a.network.id
                               /\ nets[j].name = display.rows[i].n_name
                       ELSE display.rows[i].n_name = "Unknown"
    /\ display.mode = "error" => last.op \in CachedOps /\ last.outcome = "raise"

\* a records page with one profile resolved to its name and one dangling
\* reference shown as "Unknown"
C9_Witness ==
    /\ display.mode = "DNS Records"
    /\ \E i, j \in 1..Len(display.rows) :
          /\ display.rows[i].pname = "Eng" /\ display.rows[i].pid = "11"
          /\ display.rows[j].pname = "Unknown" /\ display.rows[j].pid = "19"

EndpointOf(method) ==
    CASE method = "get_organizations" -> "organizations.getOrganizations"
      [] method = "get_networks" -> "organizations.getOrganizationNetworks"
      [] method = "list_profiles" -> "appliance.getOrganizationApplianceDnsLocalProfiles"
      [] method = "create_profile" -> "appliance.createOrganizationApplianceDnsLocalProfile"
      [] method = "list_dns_records" -> "appliance.getOrganizationApplianceDnsLocalRecords"
      [] method = "create_dns_record" -> "appliance.createOrganizationApplianceDnsLocalRecord"
      [] method = "list_assignments" ->
            "appliance.getOrganizationApplianceDnsLocalProfilesAssignments"
      [] method = "assign_profile" ->
            "appliance.bulkOrganizationApplianceDnsLocalProfilesAssignmentsCreate"
      [] method = "delete_profile" -> "appliance.deleteOrganizationApplianceDnsLocalProfile"
      [] method = "delete_dns_record" -> "appliance.deleteOrganizationApplianceDnsLocalRecord"
      [] method = "remove_assignment" ->
            "appliance.createOrganizationApplianceDnsLocalProfilesAssignmentsBulkDelete"

\* the events of one call that ended with the counter at c: a served cache
\* entry leaves no event; any other call logs the new counter value with the
\* operation's name and then makes the remote call
CallEvents(t, c) ==
    \/ /\ Len(t) = 1
       /\ t[1].e = "call" /\ t[1].op \in CachedOps
    \/ /\ Len(t) = 3
       /\ t[1].e = "call"
       /\ t[2] = [e |-> "log", n |-> c, op |-> EndpointOf(t[1].op), req |-> <<>>]
       /\ t[3].e = "remote" /\ t[3].op = EndpointOf(t[1].op)

\* C10 as stated: every call of a gateway or cache operation increments the
\* counter by one and emits one diagnostic event.
C10_EveryCallCounts ==
    trace # <<>> =>
        /\ Len(trace) = 3
        /\ trace[2].e = "log" /\ trace[2].n = API_CALL_COUNTER

\* C10, amended: every call that reaches the remote (every call of an uncached
\* operation, and every call of a cached one that finds no fresh entry)
\* increments the counter by exactly one and emits exactly one event tagged
\* with the new value and the operation name, before the remote call; a call
\* served from the cache leaves the counter alone and emits nothing; the
\* counter never decreases and is never reset.
C10_CounterCountsRemoteCalls ==
    /\ [](/\ trace # <<>> => CallEvents(trace, API_CALL_COUNTER)
          /\ last.op \in ListOps \cup MutationOps => Len(trace) = 3
          /\ last.op \in CachedOps => (Len(trace) = 3 <=> last.called))
    /\ [][/\ API_CALL_COUNTER' >= API_CALL_COUNTER
          /\ API_CALL_COUNTER' # API_CALL_COUNTER =>
                /\ API_CALL_COUNTER' = API_CALL_COUNTER + 1
                /\ Len(trace') = 3
                /\ NumRemote(trace') = 1
          /\ (last' # last \/ trace' # trace) =>
                (API_CALL_COUNTER' = API_CALL_COUNTER + 1 <=> Len(trace') = 3)]_vars

\* a third counted call, after a call served from the cache left the counter alone
C10_Witness ==
    /\ API_CALL_COUNTER = 3
    /\ Len(trace) = 3
    /\ trace[2].n = 3
    /\ orgCache.has

\* C11: assign_profile and remove_assignment always submit a batch of exactly
\* one element to the remote bulk operation: assign_profile(org, n, p) sends
\* [{network: {id: n}, profile: {id: p}}], remove_assignment(org, a) sends
\* [{assignmentId: a}]; create_dns_record(org, p, h, addr) passes the profile
\* reference {id: p} with hostname h and address addr.
C11_SingleElementBatch ==
    /\ last.op = "assign_profile" =>
          /\ Len(trace) = 3 /\ trace[3].e = "remote" /\ trace[3].op = EP_bulkCreate
          /\ trace[3].req[1] = last.org
          /\ Len(trace[3].req[2]) = 1
          /\ trace[3].req[2][1] = [network |-> [id |-> last.args[1]],
                                   profile |-> [id |-> last.args[2]]]
    /\ last.op = "remove_assignment" =>
          /\ Len(trace) = 3 /\ trace[3].e = "remote" /\ trace[3].op = EP_bulkDelete
          /\ trace[3].req[1] = last.org
          /\ Len(trace[3].req[2]) = 1
          /\ trace[3].req[2][1] = [assignmentId |-> last.args[1]]
    /\ last.op = "create_dns_record" =>
          /\ Len(trace) = 3 /\ trace[3].e = "remote" /\ trace[3].op = EP_createRecord
          /\ trace[3].req = <<last.org, last.args[2], last.args[3],
                              [id |-> last.args[1]]>>

\* an assignment made by a one-element batch was accepted by the remote
C11_Witness ==
    /\ last.op = "assign_profile"
    /\ last.out.ok
    /\ Len(rAssigns[last.org]) = 1
    /\ rAssigns[last.org][1].network.id = last.args[1]
    /\ rAssigns[last.org][1].profile.id = last.args[2]

\* the number of items the remote holds for organization o
Held(p, r, a, o) == Len(p[o]) + Len(r[o]) + Len(a[o])

\* C13: each call of an uncached operation (list_*, create_*, assign_profile,
\* delete_*, remove_assignment) issues exactly one remote call and returns
\* exactly one result, whether the remote call succeeds or fails: nothing is
\* retried and no second remote call is made, so one call changes the remote's
\* collections by at most one item and a failed call by none.
C13_OneCallOneRemoteCall ==
    /\ [](last.op \in ListOps \cup MutationOps =>
             /\ last.called
             /\ NumRemote(trace) = 1
             /\ trace[Len(trace)] = Remote(EndpointOf(last.op), trace[Len(trace)].req)
             /\ last.outcome = "return")
    /\ [][UncachedCallStep =>
             /\ NumRemote(trace') = 1
             /\ \A o \in Orgs :
                   LET before == Held(rProfiles, rRecords, rAssigns, o)
                       after == Held(rProfiles', rRecords', rAssigns', o)
                   IN  /\ after \in {before - 1, before, before + 1}
                       /\ ~last'.out.ok => after = before
             /\ rNextId' \in {rNextId, rNextId + 1}]_vars

\* a create whose one remote call failed: one result, an error value, and
\* nothing was created by a second attempt
C13_Witness ==
    /\ last.op = "create_dns_record"
    /\ ~last.out.ok
    /\ last.out.msg = Unavailable
    /\ NumRemote(trace) = 1
    /\ HasError(last.ret)
    /\ rRecords[last.org] = <<>>

\* the most recent run had a button pressed and called its ProjectLogic method
Handled == "pressed" \in DOMAIN display /\ display.handled

\* C12: in the presentation layer every mutation (create profile, create
\* record, create assignment, delete profile, delete record, remove assignment)
\* whose gateway result is a failure shows the user an error notification
\* carrying that failure's error message, and neither shows the success
\* notification nor triggers the success rerun.
C12_FailureShowsError ==
    Handled =>
        /\ last.op \in MutationOps
        /\ last.outcome = "return"
        /\ (~last.out.ok \/ HasError(last.ret)) =>
              /\ HasError(last.ret)
              /\ display.toast = [kind |-> "error", text |-> last.ret.error]
              /\ last.ret.error = last.out.msg
              /\ last.ret.error # ""
              /\ display.error = ""
              /\ ~display.rerun

\* the add button of Network Assignments, refused by the remote: the refusal
\* is what the user is shown
C12_Witness ==
    /\ Handled
    /\ display.pressed = "add_assign_btn"
    /\ last.op = "assign_profile"
    /\ ~last.out.ok
    /\ display.toast = [kind |-> "error", text |-> BadRequest]
    /\ ~display.rerun

\* C14: in the presentation layer a mutation whose remote call succeeded is
\* never reported to the user as an error: for every create/assign handler and
\* every delete/remove handler, whenever the gateway returns a success value
\* (an empty or falsy one from a create or bulk create included), the success
\* notification is shown and the error notification is not.
C14_SuccessNeverShownAsError ==
    (Handled /\ last.out.ok) =>
        /\ display.toast.kind = "success"
        /\ display.rerun
        /\ display.error = ""

====
